---------------------------- MODULE Spec2Model ----------------------------
(***************************************************************************)
(* A model of the distributed file store of src/DFS/main.go: the command   *)
(* codec, the DFSStateMachine (the FileTable), and the HTTP handlers of a   *)
(* node (upload, download, peer replication) running on a small cluster.   *)
(*                                                                         *)
(* Byte strings (paths, file contents, encoded commands) are sequences of  *)
(* byte values 0..255.  The consensus engine (package goraft) is not part  *)
(* of the source under study; it is modelled from its interface.           *)
(***************************************************************************)
EXTENDS Integers, Sequences, FiniteSets, TLC

(***************************************************************************)
(* Bounds of the model.                                                    *)
(***************************************************************************)
\* Uploads (POST /upload/) that the cluster handles in one behaviour.
MaxUploads == 1
\* Commands the state-machine harness applies in one behaviour.
MaxApplies == 2
\* Entries the engine commits in one behaviour of the log by itself.
MaxLog == 3

\* The cluster of start-cluster.ps1: three members.
NumNodes == 3

Nodes == 1..NumNodes

(***************************************************************************)
(* Bytes and strings.                                                      *)
(***************************************************************************)
Slash == 47

\* The paths a client names: "a" and "d/a", which share their final segment.
PathA  == <<97>>
PathDA == <<100, 47, 97>>
Paths == {PathA, PathDA}

\* The bodies a client uploads: of different lengths.
Bodies == {<<1, 2>>, <<3>>}

\* The bytes of s from position i (1-based) to its end.
Drop(s, i) == SubSeq(s, i, Len(s))

\* The first n bytes of s.
Take(s, n) == SubSeq(s, 1, n)


Min(a, b) == IF a < b THEN a ELSE b

\* The largest integer the model computes with (2^31 - 1).
MaxInt == 2147483646 + 1

(***************************************************************************)
(* Fixed-width integers on the wire: binary.Write / binary.Read of a       *)
(* uint64, little endian.  A Go int64 v is written as its two's complement *)
(* bytes; the model computes with |v| < 2^31 and saturates what a decoded  *)
(* record declares beyond that (to MaxInt, or to -MaxInt when the sign bit *)
(* of the 64-bit word is set).                                             *)
(***************************************************************************)
\* binary.Write(msg, binary.LittleEndian, uint64(v)).
PutUint64(v) ==
    [i \in 1..8 |->
        CASE i = 1 -> v % 256
          [] i = 2 -> (v \div 256) % 256
          [] i = 3 -> (v \div 65536) % 256
          [] i = 4 -> (v \div 16777216) % 256
          [] OTHER -> IF v < 0 THEN 255 ELSE 0]

\* The Go int (64 bits) that eight little-endian bytes hold.
Uint64AsInt(bs) ==
    LET low3 == bs[1] + 256 * bs[2] + 65536 * bs[3]
        highZero == \A i \in 5..8 : bs[i] = 0
        highOnes == \A i \in 5..8 : bs[i] = 255
    IN  IF highZero /\ bs[4] < 128
          THEN low3 + 16777216 * bs[4]
        ELSE IF highOnes /\ bs[4] >= 128 /\ ~(bs[4] = 128 /\ low3 = 0)
          THEN 16777216 * (bs[4] - 255) + (low3 - 16777216)
        ELSE IF bs[8] >= 128 THEN 0 - MaxInt
        ELSE MaxInt

\* binary.Read(buf, binary.LittleEndian, &x) with its error ignored: with fewer
\* than eight bytes left, io.ReadFull consumes what is left and x keeps its zero.
ReadUint64(buf) ==
    IF Len(buf) >= 8
      THEN [val |-> Uint64AsInt(Take(buf, 8)), rest |-> Drop(buf, 9)]
      ELSE [val |-> 0, rest |-> <<>>]

\* bytes.Buffer.Next(n): the next n bytes or what is left of them; a negative n
\* makes the slice expression panic.
BufNext(buf, n) ==
    IF n < 0
      THEN [panicked |-> TRUE, data |-> <<>>, rest |-> buf]
      ELSE [panicked |-> FALSE,
            data |-> Take(buf, Min(n, Len(buf))),
            rest |-> Drop(buf, Min(n, Len(buf)) + 1)]

(***************************************************************************)
(* Commands and their codec.                                               *)
(***************************************************************************)
CreateFile == 0
DeleteFile == 1
RenameFile == 2

command(kind, path, oldPath, newPath, size) ==
    [Kind |-> kind, Path |-> path, OldPath |-> oldPath, NewPath |-> newPath,
     Size |-> size]

ZeroCommand == command(0, <<>>, <<>>, <<>>, 0)

\* An encoder that writes NewPath before OldPath.
encodeCommandSwapped(c) ==
    <<c.Kind % 256>>
      \o PutUint64(Len(c.Path)) \o c.Path
      \o PutUint64(Len(c.NewPath)) \o c.NewPath
      \o PutUint64(Len(c.OldPath)) \o c.OldPath
      \o PutUint64(c.Size)

encodeCommand(c) ==
    <<c.Kind % 256>>
      \o PutUint64(Len(c.Path)) \o c.Path
      \o PutUint64(Len(c.OldPath)) \o c.OldPath
      \o PutUint64(Len(c.NewPath)) \o c.NewPath
      \o PutUint64(c.Size)

\* decodeCommand returns a command or panics; it has no error result.
decodeCommand(msg) ==
    IF Len(msg) = 0
      THEN [panicked |-> TRUE, cmd |-> ZeroCommand]
      ELSE
        LET kind == msg[1]
            l1 == ReadUint64(Drop(msg, 2))
            s1 == BufNext(l1.rest, l1.val)
            l2 == ReadUint64(s1.rest)
            s2 == BufNext(l2.rest, l2.val)
            l3 == ReadUint64(s2.rest)
            s3 == BufNext(l3.rest, l3.val)
            sz == ReadUint64(s3.rest)
        IN  IF s1.panicked \/ s2.panicked \/ s3.panicked
              THEN [panicked |-> TRUE, cmd |-> ZeroCommand]
              ELSE [panicked |-> FALSE,
                    cmd |-> command(kind, s1.data, s2.data, s3.data, sz.val)]

(***************************************************************************)
(* The FileTable: DFSStateMachine.files, a sync.Map from path to *File.    *)
(***************************************************************************)
EmptyTable == [p \in {} |-> p]

\* A record whose size is filled from the clock reading of the node.
FileSizeFromClock(name, size, lastModified) ==
    [Name |-> name, Size |-> lastModified[1], LastModified |-> lastModified]

File(name, size, lastModified) ==
    [Name |-> name, Size |-> size, LastModified |-> lastModified]

\* LoadOrStore: an existing record is kept.
MapStoreIfAbsent(files, k, v) ==
    [p \in (DOMAIN files) \cup {k} |-> IF p \in DOMAIN files THEN files[p] ELSE v]

\* sync.Map.Store
MapStore(files, k, v) ==
    [p \in (DOMAIN files) \cup {k} |-> IF p = k THEN v ELSE files[p]]

\* A delete with its filter inverted: the named record is the one kept.
MapDeleteOthers(files, k) ==
    [p \in (DOMAIN files) \cap {k} |-> files[p]]

\* sync.Map.Delete
MapDelete(files, k) ==
    [p \in (DOMAIN files) \ {k} |-> files[p]]

\* An Apply whose rename stores the new record and forgets the old one.
ApplyRenameKeepsOld(files, cmd, now) ==
    LET d == decodeCommand(cmd)
        c == d.cmd
    IN  IF d.panicked
          THEN [files |-> files, err |-> "panic"]
        ELSE IF c.Kind = CreateFile
          THEN [files |-> MapStore(files, c.Path, File(c.Path, c.Size, now)),
                err |-> ""]
        ELSE IF c.Kind = DeleteFile
          THEN [files |-> MapDelete(files, c.Path), err |-> ""]
        ELSE IF c.Kind = RenameFile
          THEN [files |-> MapStore(files, c.NewPath, File(c.NewPath, c.Size, now)),
                err |-> ""]
        ELSE [files |-> files, err |-> "unknown command"]

\* DFSStateMachine.Apply(cmd) on the table files, time.Now() reading now.
\* err is "" (nil), "unknown command", or "panic" when decodeCommand panicked
\* (the panic unwinds through Apply before it touches the table).
Apply(files, cmd, now) ==
    LET d == decodeCommand(cmd)
        c == d.cmd
    IN  IF d.panicked
          THEN [files |-> files, err |-> "panic"]
        ELSE IF c.Kind = CreateFile
          THEN [files |-> MapStore(files, c.Path, File(c.Path, c.Size, now)),
                err |-> ""]
        ELSE IF c.Kind = DeleteFile
          THEN [files |-> MapDelete(files, c.Path), err |-> ""]
        ELSE IF c.Kind = RenameFile
          THEN [files |-> MapStore(MapDelete(files, c.OldPath), c.NewPath,
                                   File(c.NewPath, c.Size, now)),
                err |-> ""]
        ELSE [files |-> files, err |-> "unknown command"]


(***************************************************************************)
(* The content store of a node: one regular file per key under the node's  *)
(* data directory, the key being filepath.Base of the path.                *)
(***************************************************************************)
Dot == 46

\* filepath.Base(path): "." for the empty path; trailing separators dropped;
\* the bytes after the last separator; "/" when only separators were there.
Base(path) ==
    LET k == IF \E i \in 1..Len(path) : path[i] # Slash
               THEN CHOOSE i \in 1..Len(path) :
                        /\ path[i] # Slash
                        /\ \A j \in (i + 1)..Len(path) : path[j] = Slash
               ELSE 0
        j == IF \E i \in 1..k : path[i] = Slash
               THEN CHOOSE i \in 1..k :
                        /\ path[i] = Slash
                        /\ \A m \in (i + 1)..k : path[m] # Slash
               ELSE 0
    IN  IF Len(path) = 0 THEN <<Dot>>
        ELSE IF k = 0 THEN <<Slash>>
        ELSE SubSeq(path, j + 1, k)

EmptyDisk == [k \in {} |-> k]

\* os.Create: the file exists afterwards and is empty (O_TRUNC).
OsCreate(dir, key) == MapStore(dir, key, <<>>)

\* A Write of data through a descriptor opened by os.Create and not written
\* before: the bytes go to offset 0 of whatever the file holds by now.
WriteAt0(old, data) == data \o Drop(old, Len(data) + 1)

FileWrite(dir, key, data) ==
    MapStore(dir, key, WriteAt0(IF key \in DOMAIN dir THEN dir[key] ELSE <<>>, data))


(***************************************************************************)
(* State.                                                                  *)
(*   leader, log, applied : the consensus engine (goraft): the set of      *)
(*       nodes that lead (at most one), the committed entries in log       *)
(*       order, how many of them each node has handed to its state         *)
(*       machine.                                                          *)
(*   files   : each node's FileTable.                                      *)
(*   disk    : each node's data directory, key -> bytes of the file.       *)
(*   req     : the upload requests (createFileHandler), each with its      *)
(*       position pc, its inputs, the local n, the response written, what  *)
(*       IsLeader (hint) and raft.Apply (propose) returned to it, and      *)
(*       whether it has created its local file (wrote).                    *)
(*   client  : per request and follower, the push goroutine of             *)
(*       replicateToFollowers.                                             *)
(*   server  : per request and follower, replicateFileHandler handling     *)
(*       that push on the follower.                                        *)
(*   attempts: per request and follower, the pushes started so far.        *)
(*   fetch   : the last download (getFileHandler) and its response (node 0 *)
(*       before the first one; a request not yet received has node 0 too). *)
(*   renaming: per node, whether its Apply of a rename stands between its   *)
(*       two map operations, and the table that Apply found.               *)
(*   listing : the last List (listFilesHandler): its node (0 before the    *)
(*       first one) and the records it returned.                           *)
(*   sm*     : one DFSStateMachine driven directly with byte strings: its  *)
(*       table smTable, the table smPrev before the last Apply, the        *)
(*       command smCmd built and the bytes smMsg handed to Apply, what     *)
(*       Apply returned (smOut), and the number of Apply calls so far.     *)
(***************************************************************************)
VARIABLES leader, log, applied, files, disk, req, client, server, attempts,
          fetch, renaming, listing,
          smPc, smTable, smPrev, smCmd, smMsg, smOut, smCount

clusterVars == <<leader, log, applied, files, disk, req, client, server,
                 attempts, fetch, renaming, listing>>
readerVars == <<renaming, listing>>
smVars == <<smPc, smTable, smPrev, smCmd, smMsg, smOut, smCount>>
vars == <<leader, log, applied, files, disk, req, client, server, attempts,
          fetch, renaming, listing,
          smPc, smTable, smPrev, smCmd, smMsg, smOut, smCount>>

Reqs == 1..MaxUploads

(***************************************************************************)
(* The consensus engine, from its interface.                               *)
(***************************************************************************)
\* raft.IsLeader()
IsLeader(n) == n \in leader

\* raft.Followers(): the other members of the cluster.
Followers(n) == Nodes \ {n}

\* What raft.Apply can return on node n: an error when n does not lead, and
\* otherwise success (the entry is committed and applied on n) or an error
\* because no quorum answered in time.
ProposeOutcomes(n) ==
    IF IsLeader(n) THEN {"ok", "ReplicationTimeout"} ELSE {"NotLeader"}

\* time.Now() on node n when it applies its k-th entry.
Now(n, k) == <<n, k>>

\* The table of node n after the engine has delivered entries from+1..to of
\* entries to it, in log order.
RECURSIVE ApplyRange(_, _, _, _, _)
ApplyRange(table, entries, from, to, n) ==
    IF from >= to THEN table
    ELSE ApplyRange(Apply(table, entries[from + 1], Now(n, from + 1)).files,
                    entries, from + 1, to, n)

(***************************************************************************)
(* Responses.                                                              *)
(***************************************************************************)
NoResp == [status |-> 0, msg |-> "", body |-> <<>>]

\* http.Error / WriteHeader on a ResponseWriter: the first status written is
\* the one the client gets.
WriteResp(old, status, msg) ==
    IF old.status = 0 THEN [status |-> status, msg |-> msg, body |-> <<>>] ELSE old

IdleReq ==
    [pc |-> "idle", node |-> 0, path |-> <<>>, body |-> <<>>, n |-> 0,
     resp |-> NoResp, hint |-> "none", propose |-> "none", wrote |-> FALSE]

Init ==
    /\ leader = {}
    /\ log = <<>>
    /\ applied = [n \in Nodes |-> 0]
    /\ files = [n \in Nodes |-> EmptyTable]
    /\ disk = [n \in Nodes |-> EmptyDisk]
    /\ req = [r \in Reqs |-> IdleReq]
    /\ client = [r \in Reqs |-> [f \in Nodes |-> "none"]]
    /\ server = [r \in Reqs |-> [f \in Nodes |-> "none"]]
    /\ attempts = [r \in Reqs |-> [f \in Nodes |-> 0]]
    /\ fetch = [node |-> 0, path |-> <<>>, resp |-> NoResp]
    /\ renaming = [n \in Nodes |-> [on |-> FALSE, before |-> EmptyTable]]
    /\ listing = [node |-> 0, files |-> {}]
    /\ smPc = "draw"
    /\ smTable = EmptyTable
    /\ smPrev = EmptyTable
    /\ smCmd = ZeroCommand
    /\ smMsg = <<>>
    /\ smOut = ""
    /\ smCount = 0


(***************************************************************************)
(* createFileHandler, step by step.  Requests are numbered in the order in *)
(* which their handlers start.                                             *)
(***************************************************************************)
\* The check without its return: the handler answers and goes on.
AfterLeaderCheckNoReturn(isLeader) == "create"

\* Where the handler goes after hs.raft.IsLeader(): on, or out by the return.
AfterLeaderCheck(isLeader) == IF isLeader THEN "create" ELSE "done"

\* A POST /upload/<p> with body b reaches node n: the leadership check.
CreateBegin(r, n, p, b) ==
    /\ req[r].pc = "idle"
    /\ \A q \in Reqs : q < r => req[q].pc # "idle"
    /\ req' = [req EXCEPT
          ![r].node = n, ![r].path = p, ![r].body = b,
          ![r].hint = IF IsLeader(n) THEN "leader" ELSE "notleader",
          ![r].resp = IF IsLeader(n) THEN @
                      ELSE WriteResp(@, 503, "Not the leader - try another node"),
          ![r].pc = AfterLeaderCheck(IsLeader(n))]
    /\ UNCHANGED <<leader, log, applied, files, disk, client, server, attempts,
                   fetch>>
    /\ UNCHANGED readerVars
    /\ UNCHANGED smVars

\* os.Create(dataFilePath): the file is created or truncated, or the call fails.
CreateLocal(r) ==
    /\ req[r].pc = "create"
    /\ \E ok \in BOOLEAN :
          IF ok
            THEN /\ disk' = [disk EXCEPT ![req[r].node] =
                                OsCreate(@, Base(req[r].path))]
                 /\ req' = [req EXCEPT ![r].pc = "write", ![r].wrote = TRUE]
            ELSE /\ disk' = disk
                 /\ req' = [req EXCEPT
                       ![r].resp = WriteResp(@, 500, "Failed to create local file"),
                       ![r].pc = "done"]
    /\ UNCHANGED <<leader, log, applied, files, client, server, attempts, fetch>>
    /\ UNCHANGED readerVars
    /\ UNCHANGED smVars

\* A handler that records the file in its own table as soon as it has written
\* the bytes.
WriteLocalRecords(r) ==
    /\ req[r].pc = "write"
    /\ \E k \in 0..Len(req[r].body) :
          /\ disk' = [disk EXCEPT ![req[r].node] =
                         FileWrite(@, Base(req[r].path), Take(req[r].body, k))]
          /\ files' = [files EXCEPT ![req[r].node] =
                          MapStore(@, req[r].path,
                                   File(req[r].path, k, Now(req[r].node, 0)))]
          /\ IF k = Len(req[r].body)
               THEN req' = [req EXCEPT ![r].n = k, ![r].pc = "propose"]
               ELSE req' = [req EXCEPT
                       ![r].n = k,
                       ![r].resp = WriteResp(@, 500, "Failed to write file content"),
                       ![r].pc = "done"]
    /\ UNCHANGED <<leader, log, applied, client, server, attempts, fetch>>
    /\ UNCHANGED readerVars
    /\ UNCHANGED smVars

\* io.ReadAll(r.Body) and file.Write(body): all of the body is written and n is
\* its length, or k < len(body) bytes are written and Write returns an error.
WriteLocal(r) ==
    /\ req[r].pc = "write"
    /\ \E k \in 0..Len(req[r].body) :
          /\ disk' = [disk EXCEPT ![req[r].node] =
                         FileWrite(@, Base(req[r].path), Take(req[r].body, k))]
          /\ IF k = Len(req[r].body)
               THEN req' = [req EXCEPT ![r].n = k, ![r].pc = "propose"]
               ELSE req' = [req EXCEPT
                       ![r].n = k,
                       ![r].resp = WriteResp(@, 500, "Failed to write file content"),
                       ![r].pc = "done"]
    /\ UNCHANGED <<leader, log, applied, files, client, server, attempts, fetch>>
    /\ UNCHANGED readerVars
    /\ UNCHANGED smVars

\* The error check without its return.
AfterProposeNoReturn(outcome) == "replicate"

\* Where the handler goes after hs.raft.Apply: on to the replication, or out.
AfterPropose(outcome) == IF outcome = "ok" THEN "replicate" ELSE "done"

\* hs.raft.Apply([][]byte{encodeCommand(cmd)}) and the check of its error.  On
\* success the entry is committed and node n has applied the log up to it.
Propose(r) ==
    /\ req[r].pc = "propose"
    /\ LET n == req[r].node
           cmd == command(CreateFile, req[r].path, <<>>, <<>>, req[r].n)
       IN  \E o \in ProposeOutcomes(n) :
             /\ req' = [req EXCEPT
                   ![r].propose = o,
                   ![r].resp = IF o = "ok" THEN @
                               ELSE WriteResp(@, 500, "Failed to replicate file metadata"),
                   ![r].pc = AfterPropose(o)]
             /\ IF o = "ok"
                  THEN /\ log' = Append(log, encodeCommand(cmd))
                       /\ files' = [files EXCEPT ![n] =
                              ApplyRange(@, log', applied[n], Len(log'), n)]
                       /\ applied' = [applied EXCEPT ![n] = Len(log')]
                  ELSE UNCHANGED <<log, files, applied>>
    /\ UNCHANGED <<leader, disk, client, server, attempts, fetch>>
    /\ UNCHANGED readerVars
    /\ UNCHANGED smVars

\* The followers replicateToFollowers starts a push goroutine for.
PushTargets(n) == Followers(n)

\* replicateToFollowers up to wg.Wait(): one goroutine per follower.
LaunchPushes(r) ==
    /\ req[r].pc = "replicate"
    /\ client' = [client EXCEPT ![r] =
          [f \in Nodes |-> IF f \in PushTargets(req[r].node) THEN "inflight" ELSE @[f]]]
    /\ attempts' = [attempts EXCEPT ![r] =
          [f \in Nodes |-> IF f \in PushTargets(req[r].node) THEN @[f] + 1 ELSE @[f]]]
    /\ req' = [req EXCEPT ![r].pc = "wait"]
    /\ UNCHANGED <<leader, log, applied, files, disk, server, fetch>>
    /\ UNCHANGED readerVars
    /\ UNCHANGED smVars

\* A push goroutine has returned (wg.Done).
Finished(c) == c \in {"ok200", "ok500", "refused", "timeout"}

\* A wait that returns with the first goroutine that is done.
WaitReturnsAny(r) ==
    \E f \in Nodes : Finished(client[r][f])

\* A wait that counts the answered pushes only: a goroutine that returns on
\* an error of client.Do is never counted as done.
WaitReturnsOnAnswers(r) ==
    \A f \in Nodes : client[r][f] # "none" => client[r][f] \in {"ok200", "ok500"}

\* wg.Wait() returns: every goroutine started has called wg.Done.
WaitReturns(r) ==
    \A f \in Nodes : client[r][f] # "none" => Finished(client[r][f])

\* A handler that reports a failed push to the client.
CreatedStatusStrict(r) ==
    IF \A f \in Nodes : client[r][f] \in {"none", "ok200"} THEN 201 ELSE 500

\* The status the handler writes after replicateToFollowers has returned.
CreatedStatus(r) == 201

\* wg.Wait() returns, replicateToFollowers returns, and the handler answers.
Respond(r) ==
    /\ req[r].pc = "wait"
    /\ WaitReturns(r)
    /\ req' = [req EXCEPT
          ![r].resp = WriteResp(@, CreatedStatus(r), "created and replicated successfully"),
          ![r].pc = "done"]
    /\ UNCHANGED <<leader, log, applied, files, disk, client, server, attempts,
                   fetch>>
    /\ UNCHANGED readerVars
    /\ UNCHANGED smVars


(***************************************************************************)
(* One push: the goroutine on the leader (client.Do with a 10 s timeout)   *)
(* and replicateFileHandler on the follower.                               *)
(***************************************************************************)
\* client.Do fails at once: the follower does not accept the connection, and
\* its handler never runs.
PushRefused(r, f) ==
    /\ client[r][f] = "inflight"
    /\ server[r][f] = "none"
    /\ client' = [client EXCEPT ![r][f] = "refused"]
    /\ server' = [server EXCEPT ![r][f] = "refused"]
    /\ UNCHANGED <<leader, log, applied, files, disk, req, attempts, fetch>>
    /\ UNCHANGED readerVars
    /\ UNCHANGED smVars

\* The client's timeout fires before the response has arrived, wherever the
\* follower's handler is by then.
PushTimeout(r, f) ==
    /\ client[r][f] = "inflight"
    /\ client' = [client EXCEPT ![r][f] = "timeout"]
    /\ UNCHANGED <<leader, log, applied, files, disk, req, server, attempts,
                   fetch>>
    /\ UNCHANGED readerVars
    /\ UNCHANGED smVars

\* The response arrives: client.Do returns it with a nil error, whatever its
\* status.
PushAnswered(r, f) ==
    /\ client[r][f] = "inflight"
    /\ server[r][f] \in {"stored", "failed"}
    /\ client' = [client EXCEPT ![r][f] =
                     IF server[r][f] = "stored" THEN "ok200" ELSE "ok500"]
    /\ UNCHANGED <<leader, log, applied, files, disk, req, server, attempts,
                   fetch>>
    /\ UNCHANGED readerVars
    /\ UNCHANGED smVars

\* replicateFileHandler on f, os.Create: the file is created or truncated, or
\* the call fails and the handler answers 500.
PeerCreate(r, f) ==
    /\ client[r][f] \in {"inflight", "timeout"}
    /\ server[r][f] = "none"
    /\ \E ok \in BOOLEAN :
          IF ok
            THEN /\ disk' = [disk EXCEPT ![f] = OsCreate(@, Base(req[r].path))]
                 /\ server' = [server EXCEPT ![r][f] = "created"]
            ELSE /\ disk' = disk
                 /\ server' = [server EXCEPT ![r][f] = "failed"]
    /\ UNCHANGED <<leader, log, applied, files, req, client, attempts, fetch>>
    /\ UNCHANGED readerVars
    /\ UNCHANGED smVars

\* The bytes io.Copy(file, r.Body) can get from the request body: all of them,
\* or a prefix when the client has given up and closed the connection.
BodyPrefixes(body, c) ==
    IF c = "timeout" THEN {Take(body, k) : k \in 0..Len(body)} ELSE {body}

\* A handler that passes the bytes on: it starts a push of its own to the
\* other nodes.
PeerCopyForwards(r, f) ==
    /\ server[r][f] = "created"
    /\ \E data \in BodyPrefixes(req[r].body, client[r][f]) :
          disk' = [disk EXCEPT ![f] = FileWrite(@, Base(req[r].path), data)]
    /\ server' = [server EXCEPT ![r][f] = "stored"]
    /\ attempts' = [attempts EXCEPT ![r] =
          [g \in Nodes |-> IF g \in Followers(f) THEN @[g] + 1 ELSE @[g]]]
    /\ UNCHANGED <<leader, log, applied, files, req, client, fetch>>
    /\ UNCHANGED readerVars
    /\ UNCHANGED smVars

\* replicateFileHandler on f, io.Copy and the 200 answer (the error of io.Copy
\* is not looked at).
PeerCopy(r, f) ==
    /\ server[r][f] = "created"
    /\ \E data \in BodyPrefixes(req[r].body, client[r][f]) :
          disk' = [disk EXCEPT ![f] = FileWrite(@, Base(req[r].path), data)]
    /\ server' = [server EXCEPT ![r][f] = "stored"]
    /\ UNCHANGED <<leader, log, applied, files, req, client, attempts, fetch>>
    /\ UNCHANGED readerVars
    /\ UNCHANGED smVars

(***************************************************************************)
(* The consensus engine's own steps.                                       *)
(***************************************************************************)
\* The leader loses its leadership.
StepDown ==
    /\ leader # {}
    /\ leader' = {}
    /\ UNCHANGED <<log, applied, files, disk, req, client, server, attempts,
                   fetch>>
    /\ UNCHANGED readerVars
    /\ UNCHANGED smVars

\* A node wins an election.
Elect(n) ==
    /\ leader = {}
    /\ leader' = {n}
    /\ UNCHANGED <<log, applied, files, disk, req, client, server, attempts,
                   fetch>>
    /\ UNCHANGED readerVars
    /\ UNCHANGED smVars

\* The engine hands node n its next committed entry (the apply callback).
ApplyNext(n) ==
    /\ applied[n] < Len(log)
    /\ files' = [files EXCEPT ![n] =
          Apply(@, log[applied[n] + 1], Now(n, applied[n] + 1)).files]
    /\ applied' = [applied EXCEPT ![n] = @ + 1]
    /\ UNCHANGED <<leader, log, disk, req, client, server, attempts, fetch>>
    /\ UNCHANGED readerVars
    /\ UNCHANGED smVars

(***************************************************************************)
(* getFileHandler.                                                         *)
(***************************************************************************)
\* A handler that looks for the file before it looks for the record.
getFileHandlerContentFirst(table, dir, path, openOk) ==
    IF Base(path) \in DOMAIN dir /\ openOk
      THEN [status |-> 200, msg |-> "", body |-> dir[Base(path)]]
    ELSE IF path \notin DOMAIN table
      THEN [status |-> 404, msg |-> "File not found", body |-> <<>>]
    ELSE [status |-> 404, msg |-> "File content not found on this node",
          body |-> <<>>]

\* The response to GET /upload/<path> on a node with FileTable table and data
\* directory dir; openOk tells whether os.Open succeeds.
getFileHandler(table, dir, path, openOk) ==
    IF path \notin DOMAIN table
      THEN [status |-> 404, msg |-> "File not found", body |-> <<>>]
    ELSE IF Base(path) \notin DOMAIN dir
      THEN [status |-> 404, msg |-> "File content not found on this node",
            body |-> <<>>]
    ELSE IF ~openOk
      THEN [status |-> 500, msg |-> "Could not open file on this node",
            body |-> <<>>]
    ELSE [status |-> 200, msg |-> "", body |-> dir[Base(path)]]

Fetch(n, p) ==
    /\ \E openOk \in BOOLEAN :
          fetch' = [node |-> n, path |-> p,
                    resp |-> getFileHandler(files[n], disk[n], p, openOk)]
    /\ UNCHANGED <<leader, log, applied, files, disk, req, client, server,
                   attempts>>
    /\ UNCHANGED readerVars
    /\ UNCHANGED smVars

Next ==
    \/ \E r \in Reqs, n \in Nodes, p \in Paths, b \in Bodies : CreateBegin(r, n, p, b)
    \/ \E r \in Reqs : CreateLocal(r)
    \/ \E r \in Reqs : WriteLocal(r)
    \/ \E r \in Reqs : Propose(r)
    \/ \E r \in Reqs : LaunchPushes(r)
    \/ \E r \in Reqs : Respond(r)
    \/ \E r \in Reqs, f \in Nodes : PushRefused(r, f)
    \/ \E r \in Reqs, f \in Nodes : PushTimeout(r, f)
    \/ \E r \in Reqs, f \in Nodes : PushAnswered(r, f)
    \/ \E r \in Reqs, f \in Nodes : PeerCreate(r, f)
    \/ \E r \in Reqs, f \in Nodes : PeerCopy(r, f)
    \/ StepDown
    \/ \E n \in Nodes : Elect(n)
    \/ \E n \in Nodes : ApplyNext(n)
    \/ \E n \in Nodes, p \in Paths : Fetch(n, p)

Spec == Init /\ [][Next]_vars

(***************************************************************************)
(* The uploads under fair scheduling.  A handler that can take its next    *)
(* step takes it (its goroutine is scheduled, os.Create and file.Write     *)
(* return), the timeout of a push that is still in flight fires            *)
(* (http.Client.Timeout), and no call of raft.Apply stays pending for ever *)
(* (the engine returns from it, with a result or an error).  Nothing else  *)
(* is assumed of the engine, of the followers or of the network.           *)
(* Downloads are left out.                                                 *)
(***************************************************************************)
NextLive ==
    \/ \E r \in Reqs, n \in Nodes, p \in Paths, b \in Bodies : CreateBegin(r, n, p, b)
    \/ \E r \in Reqs : CreateLocal(r)
    \/ \E r \in Reqs : WriteLocal(r)
    \/ \E r \in Reqs : Propose(r)
    \/ \E r \in Reqs : LaunchPushes(r)
    \/ \E r \in Reqs : Respond(r)
    \/ \E r \in Reqs, f \in Nodes : PushRefused(r, f)
    \/ \E r \in Reqs, f \in Nodes : PushTimeout(r, f)
    \/ \E r \in Reqs, f \in Nodes : PushAnswered(r, f)
    \/ \E r \in Reqs, f \in Nodes : PeerCreate(r, f)
    \/ \E r \in Reqs, f \in Nodes : PeerCopy(r, f)
    \/ StepDown
    \/ \E n \in Nodes : Elect(n)
    \/ \E n \in Nodes : ApplyNext(n)

Fairness ==
    /\ \A r \in Reqs :
          /\ WF_vars(CreateLocal(r))
          /\ WF_vars(WriteLocal(r))
          /\ []<>(req[r].pc # "propose")
          /\ WF_vars(LaunchPushes(r))
          /\ WF_vars(Respond(r))
    /\ \A r \in Reqs, f \in Nodes : WF_vars(PushTimeout(r, f))

SpecLive == Init /\ [][NextLive]_vars /\ Fairness

(***************************************************************************)
(* Two uploads at a time on a cluster whose leader stays and whose peers   *)
(* can all be reached: the handlers of the two requests and of their       *)
(* pushes interleave freely.  Every push is answered (no refusal, no       *)
(* timeout); downloads and the followers' tables are left out.             *)
(***************************************************************************)
PairReqs == {1, 2}

InitPair ==
    /\ leader = {}
    /\ log = <<>>
    /\ applied = [n \in Nodes |-> 0]
    /\ files = [n \in Nodes |-> EmptyTable]
    /\ disk = [n \in Nodes |-> EmptyDisk]
    /\ req = [r \in PairReqs |-> IdleReq]
    /\ client = [r \in PairReqs |-> [f \in Nodes |-> "none"]]
    /\ server = [r \in PairReqs |-> [f \in Nodes |-> "none"]]
    /\ attempts = [r \in PairReqs |-> [f \in Nodes |-> 0]]
    /\ fetch = [node |-> 0, path |-> <<>>, resp |-> NoResp]
    /\ renaming = [n \in Nodes |-> [on |-> FALSE, before |-> EmptyTable]]
    /\ listing = [node |-> 0, files |-> {}]
    /\ smPc = "draw"
    /\ smTable = EmptyTable
    /\ smPrev = EmptyTable
    /\ smCmd = ZeroCommand
    /\ smMsg = <<>>
    /\ smOut = ""
    /\ smCount = 0

NextPair ==
    \/ \E r \in PairReqs, n \in Nodes, p \in Paths, b \in Bodies :
          CreateBegin(r, n, p, b)
    \/ \E r \in PairReqs : CreateLocal(r)
    \/ \E r \in PairReqs : WriteLocal(r)
    \/ \E r \in PairReqs : Propose(r)
    \/ \E r \in PairReqs : LaunchPushes(r)
    \/ \E r \in PairReqs : Respond(r)
    \/ \E r \in PairReqs, f \in Nodes : PushAnswered(r, f)
    \/ \E r \in PairReqs, f \in Nodes : PeerCreate(r, f)
    \/ \E r \in PairReqs, f \in Nodes : PeerCopy(r, f)
    \/ \E n \in Nodes : Elect(n)

SpecPair == InitPair /\ [][NextPair]_vars


(***************************************************************************)
(* A single DFSStateMachine driven with byte strings: commands are built,  *)
(* encoded, possibly damaged on the way, and handed to Apply.              *)
(***************************************************************************)
\* The strings and sizes commands are built from.
Strs == {<<>>, PathDA}
Sizes == {0, 256, MaxInt}
Commands ==
    {command(k, p, o, n, z) :
        k \in {CreateFile, DeleteFile, RenameFile},
        p \in Strs, o \in Strs, n \in Strs, z \in Sizes}

\* Damaged records: truncations (the empty record, the tag alone, a cut inside
\* the first length, after it, before the size, before the last byte), a tag
\* that is no variant, a declared length beyond the record, a declared length
\* with the top bit set.
Damaged(msg) ==
    {Take(msg, k) : k \in {0, 1, 5, 9, Len(msg) - 8, Len(msg) - 1}
                                \cap (0..(Len(msg) - 1))}
      \cup {[msg EXCEPT ![1] = 3], [msg EXCEPT ![1] = 255]}
      \cup {[msg EXCEPT ![2] = 200], [msg EXCEPT ![9] = 255]}

SmDraw(c) ==
    /\ smPc = "draw"
    /\ smCount < MaxApplies
    /\ smCmd' = c
    /\ smMsg' = encodeCommand(c)
    /\ smPc' = "encoded"
    /\ UNCHANGED <<smTable, smPrev, smOut, smCount>>
    /\ UNCHANGED clusterVars

SmDamage ==
    /\ smPc = "encoded"
    /\ \E m \in Damaged(smMsg) : smMsg' = m
    /\ smPc' = "damaged"
    /\ UNCHANGED <<smTable, smPrev, smCmd, smOut, smCount>>
    /\ UNCHANGED clusterVars

\* The engine's apply callback: Apply(smMsg).  A panic ends the process.
SmApply ==
    /\ smPc \in {"encoded", "damaged"}
    /\ LET res == Apply(smTable, smMsg, Now(1, smCount + 1))
       IN  /\ smTable' = res.files
           /\ smOut' = res.err
           /\ smPc' = IF res.err = "panic" THEN "crashed" ELSE "applied"
    /\ smPrev' = smTable
    /\ smCount' = smCount + 1
    /\ UNCHANGED <<smCmd, smMsg>>
    /\ UNCHANGED clusterVars

\* The next command is awaited; the last one is forgotten.
SmNext ==
    /\ smPc = "applied"
    /\ smPc' = "draw"
    /\ smCmd' = ZeroCommand
    /\ smMsg' = <<>>
    /\ smOut' = ""
    /\ smPrev' = smTable
    /\ UNCHANGED <<smTable, smCount>>
    /\ UNCHANGED clusterVars

NextSM ==
    \/ \E c \in Commands : SmDraw(c)
    \/ SmDamage
    \/ SmApply
    \/ SmNext

SpecSM == Init /\ [][NextSM]_vars


(***************************************************************************)
(* The replicated log by itself: the engine commits encoded commands of    *)
(* all three variants and hands them, in log order, to the state machine   *)
(* of every node.                                                          *)
(***************************************************************************)
PathX == <<120>>
PathB == <<98>>
LogPaths == {PathX, PathA, PathB}

\* Create(x, 5), Create(x, 9), Create(a, 5); Delete(x), Delete(a);
\* Rename(a, b, 10), Rename(a, a, 10), Rename(x, a, 10).
LogCommands ==
    {command(CreateFile, PathX, <<>>, <<>>, z) : z \in {5, 9}}
      \cup {command(CreateFile, PathA, <<>>, <<>>, 5)}
      \cup {command(DeleteFile, p, <<>>, <<>>, 0) : p \in {PathX, PathA}}
      \cup {command(RenameFile, <<>>, PathA, n, 10) : n \in {PathA, PathB}}
      \cup {command(RenameFile, <<>>, PathX, PathA, 10)}

\* The engine commits one more entry.
Commit(c) ==
    /\ Len(log) < MaxLog
    /\ log' = Append(log, encodeCommand(c))
    /\ UNCHANGED <<leader, applied, files, disk, req, client, server, attempts,
                   fetch>>
    /\ UNCHANGED readerVars
    /\ UNCHANGED smVars

NextLog ==
    \/ \E c \in LogCommands : Commit(c)
    \/ \E n \in Nodes : ApplyNext(n)

SpecLog == Init /\ [][NextLog]_vars


(***************************************************************************)
(* Apply next to the readers of the table: the apply callback runs on the  *)
(* engine's goroutine and every request on its own, so a reader can run    *)
(* between any two map operations of Apply.  A Create and a Delete are one *)
(* map operation; a Rename is two, s.files.Delete and s.files.Store.       *)
(***************************************************************************)
\* Create(a, 5), Create(b, 9), Rename(a, b, 10).
ReaderCommands ==
    {command(CreateFile, PathA, <<>>, <<>>, 5),
     command(CreateFile, PathB, <<>>, <<>>, 9),
     command(RenameFile, <<>>, PathA, PathB, 10)}

\* The first map operation of Apply on the next entry of node n: all of Apply
\* for a Create or a Delete, s.files.Delete(c.OldPath) for a Rename.
ApplyFirst(n) ==
    /\ applied[n] < Len(log)
    /\ ~renaming[n].on
    /\ LET entry == log[applied[n] + 1]
           c == decodeCommand(entry).cmd
       IN  IF c.Kind = RenameFile
             THEN /\ files' = [files EXCEPT ![n] = MapDelete(@, c.OldPath)]
                  /\ renaming' = [renaming EXCEPT
                                     ![n] = [on |-> TRUE, before |-> files[n]]]
                  /\ applied' = applied
             ELSE /\ files' = [files EXCEPT ![n] =
                        Apply(@, entry, Now(n, applied[n] + 1)).files]
                  /\ applied' = [applied EXCEPT ![n] = @ + 1]
                  /\ renaming' = renaming
    /\ UNCHANGED <<leader, log, disk, req, client, server, attempts, fetch,
                   listing>>
    /\ UNCHANGED smVars

\* The second map operation of a Rename, s.files.Store(c.NewPath, ...), and the
\* return of Apply.
ApplySecond(n) ==
    /\ renaming[n].on
    /\ LET c == decodeCommand(log[applied[n] + 1]).cmd
       IN  files' = [files EXCEPT ![n] =
              MapStore(@, c.NewPath,
                       File(c.NewPath, c.Size, Now(n, applied[n] + 1)))]
    /\ applied' = [applied EXCEPT ![n] = @ + 1]
    /\ renaming' = [renaming EXCEPT ![n] = [on |-> FALSE, before |-> EmptyTable]]
    /\ UNCHANGED <<leader, log, disk, req, client, server, attempts, fetch,
                   listing>>
    /\ UNCHANGED smVars

\* listFilesHandler: the records Range visits (the array it encodes, without
\* its order), here all read at one instant.
listFilesHandler(table) == {table[p] : p \in DOMAIN table}

\* GET /files on node n.
List(n) ==
    /\ listing' = [node |-> n, files |-> listFilesHandler(files[n])]
    /\ UNCHANGED <<leader, log, applied, files, disk, req, client, server,
                   attempts, fetch, renaming>>
    /\ UNCHANGED smVars

NextReaders ==
    \/ \E c \in ReaderCommands : Commit(c)
    \/ \E n \in Nodes : ApplyFirst(n)
    \/ \E n \in Nodes : ApplySecond(n)
    \/ \E n \in Nodes : List(n)

SpecReaders == Init /\ [][NextReaders]_vars


(***************************************************************************)
(* Properties of the upload path.                                          *)
(***************************************************************************)
\* A push of request r to some node has been started.
PushStarted(r) ==
    \E f \in Nodes : client[r][f] # "none" \/ server[r][f] # "none" \/ attempts[r][f] > 0

\* C1: leadership gating.  A Create handled by a node whose leadership check
\* reports that it does not lead is answered with the not-leader failure (503),
\* and within that request raft.Apply is never called and no push to any peer
\* is started.
C1_LeadershipGating ==
    \A r \in Reqs :
        req[r].hint = "notleader" =>
            /\ req[r].pc = "done"
            /\ req[r].resp.status = 503
            /\ req[r].propose = "none"
            /\ ~PushStarted(r)

\* A request has been turned away by the leadership check.
C1_Witness ==
    \E r \in Reqs :
        req[r].hint = "notleader" /\ req[r].pc = "done" /\ req[r].resp.status = 503

\* C2: the metadata commit strictly precedes the content push.  A push of a
\* Create's bytes is started only once that Create's raft.Apply has returned
\* success; when raft.Apply returns an error (not leader after a stale
\* leadership hint, or a replication timeout) the Create is answered with an
\* explicit failure and no push of it is ever started.
C2_CommitBeforePush ==
    \A r \in Reqs :
        /\ PushStarted(r) => req[r].propose = "ok"
        /\ req[r].propose \in {"NotLeader", "ReplicationTimeout"} =>
              /\ req[r].pc = "done"
              /\ req[r].resp.status = 500
              /\ ~PushStarted(r)

\* A request passed the leadership check, lost the leadership before raft.Apply
\* and was answered with the failure.
C2_Witness ==
    \E r \in Reqs :
        /\ req[r].hint = "leader"
        /\ req[r].propose = "NotLeader"
        /\ req[r].pc = "done"
        /\ req[r].resp.status = 500


\* The entry that request r hands to raft.Apply.
EntryOf(r) ==
    encodeCommand(command(CreateFile, req[r].path, <<>>, <<>>, req[r].n))

\* The CreateFile command of request r is in the committed log and the node
\* that handled r has a record for its path.
Committed(r) ==
    /\ \E i \in 1..Len(log) : log[i] = EntryOf(r)
    /\ req[r].path \in DOMAIN files[req[r].node]

\* No request other than r has written under r's key on node f.
NoOtherWriter(r, f) ==
    \A q \in Reqs \ {r} :
        Base(req[q].path) = Base(req[r].path) =>
            /\ ~(req[q].node = f /\ req[q].wrote)
            /\ server[q][f] \notin {"created", "stored"}

\* Content of request r is on node f: a file exists under its key.
Present(r, f) == Base(req[r].path) \in DOMAIN disk[f]

\* The content of request r is on node f: the file under its key exists and,
\* when no other request wrote it, holds the bytes of r.
Holds(r, f) ==
    /\ Present(r, f)
    /\ NoOtherWriter(r, f) => disk[f][Base(req[r].path)] = req[r].body

C4_FanOutBarrier ==
    \A r \in Reqs :
        /\ \A f \in Nodes : attempts[r][f] <= 1
        /\ \A f \in Nodes \ Followers(req[r].node) :
              attempts[r][f] = 0 /\ client[r][f] = "none"
        /\ (req[r].propose = "ok" /\ req[r].pc \in {"wait", "done"}) =>
              \A f \in Followers(req[r].node) :
                  attempts[r][f] = 1 /\ client[r][f] # "none"
        /\ \A f \in Nodes :
              client[r][f] = "inflight" => ENABLED PushTimeout(r, f)
        /\ req[r].resp.status = 201 =>
              /\ req[r].propose = "ok"
              /\ Committed(r)
              /\ \A f \in Followers(req[r].node) : Finished(client[r][f])

\* A Create has succeeded although one peer's push timed out while the other
\* peer's was answered.
C4_Witness ==
    \E r \in Reqs :
        /\ req[r].resp.status = 201
        /\ \E f, g \in Followers(req[r].node) :
              client[r][f] = "timeout" /\ client[r][g] = "ok200"


(***************************************************************************)
(* Properties of the content store and of the download path.               *)
(***************************************************************************)
\* A handler on node n has created (truncated) the file under key and has not
\* yet written it: the local write of a Create, or a peer push being stored.
WriteInProgress(n, key) ==
    \E r \in Reqs :
        /\ Base(req[r].path) = key
        /\ \/ req[r].node = n /\ req[r].pc = "write"
           \/ server[r][n] = "created"

\* The complete byte sequences ever written under key: the bodies of the
\* requests whose path has that key.
CompleteContents(key) ==
    {req[r].body : r \in {q \in Reqs : req[q].pc # "idle" /\ Base(req[q].path) = key}}

\* C5: atomic content visibility.  A Fetch that runs on a node while a content
\* write to the same key is in progress there and that returns bytes returns a
\* complete byte sequence (the previous or the new one), never an empty,
\* truncated or mixed one.
C5_AtomicVisibility ==
    [][(/\ fetch' # fetch
        /\ fetch'.resp.status = 200
        /\ WriteInProgress(fetch'.node, Base(fetch'.path)))
          => fetch'.resp.body \in CompleteContents(Base(fetch'.path))]_vars

\* C6: content is created only after the metadata commit.  A request has
\* created its local file only if its raft.Apply has returned success, and a
\* Create that ended in a failure (turned away by the leadership check, or an
\* error from raft.Apply) has not touched the content store of its node.
C6_ContentAfterCommit ==
    \A r \in Reqs :
        /\ req[r].wrote => req[r].propose = "ok"
        /\ (/\ req[r].pc = "done"
            /\ \/ req[r].hint = "notleader"
               \/ req[r].propose \in {"NotLeader", "ReplicationTimeout"})
              => ~req[r].wrote

NotFound == [status |-> 404, msg |-> "File not found", body |-> <<>>]

ContentUnavailableLocally ==
    [status |-> 404, msg |-> "File content not found on this node", body |-> <<>>]

OpenFailed ==
    [status |-> 500, msg |-> "Could not open file on this node", body |-> <<>>]

\* C7 as stated: a Fetch of p on a node answers NotFound when the node's
\* FileTable has no record of p (even if bytes exist under p's key), the bytes
\* stored locally when it has one and bytes exist under the key, and
\* ContentUnavailableLocally, which differs from NotFound, when it has one and
\* no bytes exist; and it changes neither the FileTable nor the content store.
C7_Original ==
    [][fetch' # fetch =>
        LET n == fetch'.node
            p == fetch'.path
            resp == fetch'.resp
        IN  /\ p \notin DOMAIN files[n] => resp = NotFound
            /\ (p \in DOMAIN files[n] /\ Base(p) \in DOMAIN disk[n]) =>
                  resp.status = 200 /\ resp.body = disk[n][Base(p)]
            /\ (p \in DOMAIN files[n] /\ Base(p) \notin DOMAIN disk[n]) =>
                  resp = ContentUnavailableLocally /\ resp # NotFound
            /\ UNCHANGED <<files, disk>>]_vars

\* C7, amended: as C7_Original, but when the record and the bytes exist the
\* answer is the stored bytes or, when the file cannot be opened, an internal
\* error that differs from NotFound and from ContentUnavailableLocally.
C7_FetchOutcome ==
    [][fetch' # fetch =>
        LET n == fetch'.node
            p == fetch'.path
            resp == fetch'.resp
        IN  /\ p \notin DOMAIN files[n] => resp = NotFound
            /\ (p \in DOMAIN files[n] /\ Base(p) \in DOMAIN disk[n]) =>
                  \/ resp.status = 200 /\ resp.body = disk[n][Base(p)]
                  \/ resp = OpenFailed /\ resp # NotFound
                       /\ resp # ContentUnavailableLocally
            /\ (p \in DOMAIN files[n] /\ Base(p) \notin DOMAIN disk[n]) =>
                  resp = ContentUnavailableLocally /\ resp # NotFound
            /\ UNCHANGED <<files, disk>>]_vars

\* A Fetch has found the record of the path but no bytes on the node.
C7_Witness ==
    /\ fetch.node \in Nodes
    /\ fetch.path \in DOMAIN files[fetch.node]
    /\ Base(fetch.path) \notin DOMAIN disk[fetch.node]
    /\ fetch.resp = ContentUnavailableLocally

\* C8: content availability on all replicas.  Once an upload has been answered
\* with the success, every follower holds the uploaded bytes, and a download
\* of the path from a follower that has applied the metadata returns them.
C8_ContentOnAllReplicas ==
    \A r \in Reqs :
        req[r].resp.status = 201 =>
            \A f \in Followers(req[r].node) :
                /\ Holds(r, f)
                /\ (req[r].path \in DOMAIN files[f] /\ NoOtherWriter(r, f)) =>
                      getFileHandler(files[f], disk[f], req[r].path, TRUE)
                        = [status |-> 200, msg |-> "", body |-> req[r].body]


(***************************************************************************)
(* Properties of the codec and of Apply on damaged records.                *)
(***************************************************************************)
\* C9: codec round trip.  For every command of every variant, with empty and
\* non-empty strings for path, old path and new path and a size in the
\* non-negative range of the model, decoding its encoding gives back a command
\* equal to it in all fields.
C9_CodecRoundTrip ==
    smPc = "encoded" =>
        decodeCommand(smMsg) = [panicked |-> FALSE, cmd |-> smCmd]

\* A rename with an empty path, a non-empty old path, an empty new path and
\* the largest size has been encoded.
C9_Witness ==
    /\ smPc = "encoded"
    /\ smCmd = command(RenameFile, <<>>, PathDA, <<>>, MaxInt)

\* The position after the string field whose 8-byte length starts at pos, or
\* 0 when the length or the bytes it declares do not fit in msg.
FieldEnd(msg, pos) ==
    IF pos = 0 \/ pos + 7 > Len(msg) THEN 0
    ELSE LET l == Uint64AsInt(SubSeq(msg, pos, pos + 7))
         IN  IF l < 0 \/ l > Len(msg) - (pos + 7) THEN 0 ELSE pos + 8 + l

\* msg is a record of the layout: a tag of one of the three variants, three
\* length-prefixed strings, an 8-byte size.
WellFormed(msg) ==
    /\ Len(msg) >= 1
    /\ msg[1] \in {CreateFile, DeleteFile, RenameFile}
    /\ LET e3 == FieldEnd(msg, FieldEnd(msg, FieldEnd(msg, 2)))
       IN  e3 # 0 /\ Len(msg) = e3 + 7

\* C10: malformed input is rejected.  When the bytes handed to Apply are not a
\* well-formed record (empty, truncated, a declared length beyond the record,
\* a tag that is no variant), nothing crashes, an error is returned and the
\* FileTable is left unchanged.
C10_MalformedRejected ==
    (smPc \in {"applied", "crashed"} /\ ~WellFormed(smMsg)) =>
        /\ smPc # "crashed"
        /\ smOut \notin {"", "panic"}
        /\ smTable = smPrev


(***************************************************************************)
(* Properties of Apply on the replicated log.                              *)
(***************************************************************************)
\* The sizes a table records, path by path.
SizesOf(table) == [p \in DOMAIN table |-> table[p].Size]

\* The commands of the first k entries of the log.
Prefix(k) == [i \in 1..k |-> decodeCommand(log[i]).cmd]

\* The three commands of the example and the log that holds them in order.
ExampleCommands ==
    <<command(CreateFile, PathX, <<>>, <<>>, 5),
      command(DeleteFile, PathX, <<>>, <<>>, 0),
      command(CreateFile, PathX, <<>>, <<>>, 9)>>

ExampleLog == [i \in 1..3 |-> encodeCommand(ExampleCommands[i])]

\* The orderings of the three entries of ExampleLog.
Reorderings ==
    {[i \in 1..3 |-> ExampleLog[f[i]]] :
        f \in {g \in [1..3 -> 1..3] : \A i, j \in 1..3 : i # j => g[i] # g[j]}}

\* C11: order sensitivity.  After a node has applied a sequence of Create and
\* Delete commands, its record for a path p is determined by the last command
\* of the sequence that names p: present with that Create's size, absent after
\* a Delete (and absent when no command names p).  Create(x,5), Delete(x),
\* Create(x,9) gives x with size 9, and every reordering of these three that
\* ends in another command gives another table.
C11_OrderSensitivity ==
    \A n \in Nodes :
        LET k == applied[n]
            cmds == Prefix(k)
        IN  /\ (\A i \in 1..k : cmds[i].Kind \in {CreateFile, DeleteFile}) =>
                  \A p \in LogPaths :
                      LET named == {i \in 1..k : cmds[i].Path = p}
                          last == CHOOSE i \in named : \A j \in named : j <= i
                      IN  IF named = {} \/ cmds[last].Kind = DeleteFile
                            THEN p \notin DOMAIN files[n]
                            ELSE /\ p \in DOMAIN files[n]
                                 /\ files[n][p].Size = cmds[last].Size
            /\ (k = 3 /\ log = ExampleLog) =>
                  /\ SizesOf(files[n]) = [p \in {PathX} |-> 9]
                  /\ \A other \in Reorderings :
                        other[3] # log[3] =>
                            SizesOf(ApplyRange(EmptyTable, other, 0, 3, n))
                              # SizesOf(files[n])

\* A node has applied Create(x,5), Delete(x), Create(x,9) and records x with
\* size 9.
C11_Witness ==
    \E n \in Nodes :
        /\ log = ExampleLog
        /\ applied[n] = 3
        /\ PathX \in DOMAIN files[n]
        /\ files[n][PathX].Size = 9

\* C12: rename semantics.  Whatever the table of a node holds, applying
\* Rename(old, new, size) succeeds, and afterwards new is present with the
\* given size, old is absent when it differs from new, and the record of every
\* other path is what it was (a record that new already had is overwritten).
C12_RenameSemantics ==
    [][\A n \in Nodes :
          LET entry == log[applied[n] + 1]
              c == decodeCommand(entry).cmd
          IN  (applied'[n] = applied[n] + 1 /\ c.Kind = RenameFile) =>
                  /\ Apply(files[n], entry, Now(n, applied'[n])).err = ""
                  /\ c.NewPath \in DOMAIN files'[n]
                  /\ files'[n][c.NewPath].Name = c.NewPath
                  /\ files'[n][c.NewPath].Size = c.Size
                  /\ c.OldPath # c.NewPath => c.OldPath \notin DOMAIN files'[n]
                  /\ \A p \in LogPaths \ {c.OldPath, c.NewPath} :
                        /\ p \in DOMAIN files'[n] <=> p \in DOMAIN files[n]
                        /\ p \in DOMAIN files[n] => files'[n][p] = files[n][p]]_vars

\* A node has applied Rename(a, b, 10) to its empty table: b is present with
\* size 10 and a is absent.
C12_Witness ==
    \E n \in Nodes :
        /\ log = <<encodeCommand(command(RenameFile, <<>>, PathA, PathB, 10))>>
        /\ applied[n] = 1
        /\ DOMAIN files[n] = {PathB}
        /\ files[n][PathB].Size = 10

\* C13: idempotent delete.  Whatever the table of a node holds, applying
\* Delete(p) returns no error, leaves p absent and every other record as it
\* was; when p was absent the table is unchanged; and applying Delete(p) once
\* more gives the same table.
C13_IdempotentDelete ==
    [][\A n \in Nodes :
          LET entry == log[applied[n] + 1]
              c == decodeCommand(entry).cmd
          IN  (applied'[n] = applied[n] + 1 /\ c.Kind = DeleteFile) =>
                  /\ Apply(files[n], entry, Now(n, applied'[n])).err = ""
                  /\ c.Path \notin DOMAIN files'[n]
                  /\ \A p \in LogPaths \ {c.Path} :
                        /\ p \in DOMAIN files'[n] <=> p \in DOMAIN files[n]
                        /\ p \in DOMAIN files[n] => files'[n][p] = files[n][p]
                  /\ c.Path \notin DOMAIN files[n] => files'[n] = files[n]
                  /\ Apply(files'[n], entry, Now(n, applied'[n])).files
                       = files'[n]]_vars

\* A node has applied Create(a,5), Delete(a), Delete(a): the delete of a
\* present path and then the delete of the path now absent.
C13_Witness ==
    \E n \in Nodes :
        /\ Len(log) = 3
        /\ log[1] = encodeCommand(command(CreateFile, PathA, <<>>, <<>>, 5))
        /\ log[2] = encodeCommand(command(DeleteFile, PathA, <<>>, <<>>, 0))
        /\ log[3] = log[2]
        /\ applied[n] = 3
        /\ files[n] = EmptyTable

\* C14: replica agreement.  Two nodes that have applied the same prefix of the
\* log hold tables with the same paths and the same size for every path, and a
\* node that has applied a shorter prefix holds the table that any other node
\* gets by applying that prefix.
C14_ReplicaAgreement ==
    \A n \in Nodes, m \in Nodes :
        (n # m /\ applied[n] <= applied[m]) =>
            /\ applied[n] = applied[m] => SizesOf(files[n]) = SizesOf(files[m])
            /\ SizesOf(files[n])
                 = SizesOf(ApplyRange(EmptyTable, log, 0, applied[n], m))

\* Two nodes have applied the same three entries and agree on a table that is
\* not empty, while the third node is one entry behind and holds another table.
C14_Witness ==
    \E n, m, o \in Nodes :
        /\ n # m
        /\ applied[n] = 3 /\ applied[m] = 3 /\ applied[o] = 2
        /\ files[n] # EmptyTable
        /\ SizesOf(files[n]) = SizesOf(files[m])
        /\ files[n] # files[m]
        /\ SizesOf(files[o]) # SizesOf(files[n])


(***************************************************************************)
(* Properties of the readers of the table.                                 *)
(***************************************************************************)
\* C15: rename is atomic for readers.  A List that runs on a node while its
\* Apply of Rename(old, new, size) is under way, old being present before,
\* returns the records of the table before the rename or those of the table
\* after it, never those of a table from which old has been removed and into
\* which new has not been inserted.  (A Lookup reads one path only, and what
\* it finds for one path always fits the table before or the table after.)
C15_RenameAtomicForReaders ==
    [][\A n \in Nodes :
          (/\ listing' # listing
           /\ listing'.node = n
           /\ renaming[n].on
           /\ decodeCommand(log[applied[n] + 1]).cmd.OldPath
                \in DOMAIN renaming[n].before)
            => LET c == decodeCommand(log[applied[n] + 1]).cmd
                   after == MapStore(files[n], c.NewPath,
                               File(c.NewPath, c.Size, Now(n, applied[n] + 1)))
               IN  listing'.files \in {listFilesHandler(renaming[n].before),
                                       listFilesHandler(after)}]_vars


(***************************************************************************)
(* Frame properties of the gateway.                                        *)
(***************************************************************************)
\* The table of node n is what applying its prefix of the log gives.
TableFromLog(n) ==
    SizesOf(files[n]) = SizesOf(ApplyRange(EmptyTable, log, 0, applied[n], n))

\* C16: single writer of metadata.  On every node the FileTable changes only
\* by applying, in order, committed log entries the node had not applied yet;
\* the log grows only by the entry of a Create whose raft.Apply succeeds; no
\* other step of a Create, no step of a peer push and no Fetch changes any
\* FileTable; and a Create that is answered with a failure leaves no entry in
\* the log and so changes no FileTable.
C16_SingleWriter ==
    [][/\ \A n \in Nodes :
            files'[n] # files[n] =>
                /\ applied[n] < applied'[n]
                /\ applied'[n] <= Len(log')
                /\ files'[n] = ApplyRange(files[n], log', applied[n], applied'[n], n)
       /\ log' # log =>
            \E r \in Reqs :
                /\ req[r].pc = "propose" /\ req'[r].propose = "ok"
                /\ log' = Append(log, EntryOf(r))
       /\ (\/ fetch' # fetch \/ disk' # disk \/ server' # server
           \/ client' # client
           \/ \E r \in Reqs : req'[r] # req[r] /\ req'[r].propose # "ok")
            => files' = files
       /\ Len(log') = Cardinality({r \in Reqs : req'[r].propose = "ok"})
       /\ \A r \in Reqs :
            (req'[r].pc = "done" /\ req'[r].resp.status # 201) =>
                \A i \in 1..Len(log') :
                    decodeCommand(log'[i]).cmd.Path # req'[r].path
                      \/ \E q \in Reqs \ {r} : req'[q].propose = "ok"]_vars

\* A Create has succeeded and a follower has stored the pushed bytes, yet the
\* follower's table is empty (it has applied nothing), while the leader's
\* table has the record.
C16_Witness ==
    \E r \in Reqs, f \in Nodes :
        /\ req[r].resp.status = 201
        /\ server[r][f] = "stored"
        /\ applied[f] = 0 /\ files[f] = EmptyTable
        /\ req[r].path \in DOMAIN files[req[r].node]
        /\ TableFromLog(req[r].node)

C18_CreateCompletes ==
    \A r \in Reqs :
        (req[r].pc # "idle") ~> (req[r].pc = "done" /\ req[r].resp.status # 0)

\* A Create has been answered with the success although no peer ever handled
\* its push: both pushes ended by their timeouts.
C18_Witness ==
    \E r \in Reqs :
        /\ req[r].pc = "done"
        /\ req[r].resp.status = 201
        /\ \A f \in Followers(req[r].node) :
              client[r][f] = "timeout" /\ server[r][f] = "none"


(***************************************************************************)
(* Properties of concurrent uploads.                                       *)
(***************************************************************************)
\* Every upload has been received and answered with the success.
AllCreated ==
    \A r \in DOMAIN req : req[r].pc = "done" /\ req[r].resp.status = 201

\* No two uploads with different paths share a key.
NoKeyCollision ==
    \A r, q \in DOMAIN req :
        Base(req[r].path) = Base(req[q].path) => req[r].path = req[q].path

\* The index of the last entry of the log that names path p (0 if none does).
LastEntryFor(p) ==
    LET named == {i \in 1..Len(log) : decodeCommand(log[i]).cmd.Path = p}
    IN  IF named = {} THEN 0 ELSE CHOOSE i \in named : \A j \in named : j <= i

\* C19: leader metadata matches leader content.  Once all Creates have
\* completed successfully (key collisions between different paths excluded),
\* for every path in the leader's FileTable the recorded size is the length of
\* the bytes stored under the path's key, and those bytes are the content of
\* the Create whose command was committed last for the path, however the
\* concurrent Creates of one path interleaved.
C19_LeaderMetadataMatchesContent ==
    (AllCreated /\ NoKeyCollision) =>
        \A n \in leader :
            \A p \in DOMAIN files[n] :
                /\ Base(p) \in DOMAIN disk[n]
                /\ files[n][p].Size = Len(disk[n][Base(p)])
                /\ \A r \in DOMAIN req :
                      EntryOf(r) = log[LastEntryFor(p)] =>
                          disk[n][Base(p)] = req[r].body

\* Every push of every upload has been answered with the success.
AllPushesSucceeded ==
    \A r \in DOMAIN req :
        \A f \in Followers(req[r].node) : client[r][f] = "ok200"

\* C20: content convergence when every push succeeds.  When every push was
\* answered with the success, then once all Creates have completed (Creates
\* of one path or of paths with one final segment included) every peer stores
\* under each key the same bytes as the leader.
C20_ContentConvergence ==
    (AllCreated /\ AllPushesSucceeded) =>
        \A n \in leader :
            \A f \in Followers(n) :
                \A k \in DOMAIN disk[n] :
                    k \in DOMAIN disk[f] /\ disk[f][k] = disk[n][k]

====

